---- MODULE Spec2Model ----
(***************************************************************************)
(* Bid-decision engine and auction-event ledger of src/app.py.             *)
(*                                                                         *)
(* Money is a Python float in the source.  Here an amount is an integer    *)
(* number of thousandths of a currency unit ("mills"): 2500.0 is 2500000,  *)
(* 1.006 is 1006.  Intermediate values of the pricing formula are kept in  *)
(* units of 10^-5 (mills x 100) so that starting_price * 1.05 is exact.    *)
(* Text (category, brand) is a sequence of one-character strings.          *)
(***************************************************************************)
EXTENDS Integers, Sequences, FiniteSets, TLC

VARIABLES prefs, lastOp, proposal, decision, escaped, ledger, stored, response,
          workers

engineVars == <<lastOp, proposal, decision, escaped>>
ledgerVars == <<ledger, stored, response>>
vars == <<prefs, lastOp, proposal, decision, escaped, ledger, stored, response,
          workers>>

(***************************************************************************)
(* Bounds of the model.                                                    *)
(***************************************************************************)
NPrefs == 2
MaxLedger == 3
NWorkers == 2

(***************************************************************************)
(* Text values.                                                            *)
(***************************************************************************)
robe == <<"r", "o", "b", "e">>
ROBE == <<"R", "O", "B", "E">>
Robes == <<"R", "o", "b", "e", "s">>
robes == <<"r", "o", "b", "e", "s">>
r_be == <<"r", "_", "b", "e">>
jupe == <<"j", "u", "p", "e">>
manteau == <<"m", "a", "n", "t", "e", "a", "u">>
chaussures == <<"c", "h", "a", "u", "s", "s", "u", "r", "e", "s">>
dior == <<"d", "i", "o", "r">>
DIOR == <<"D", "I", "O", "R">>
gucci == <<"g", "u", "c", "c", "i">>
nike == <<"n", "i", "k", "e">>

UpperLetters == <<"A", "B", "C", "D", "E", "F", "G", "H", "I", "J", "K", "L", "M",
                  "N", "O", "P", "Q", "R", "S", "T", "U", "V", "W", "X", "Y", "Z">>
LowerLetters == <<"a", "b", "c", "d", "e", "f", "g", "h", "i", "j", "k", "l", "m",
                  "n", "o", "p", "q", "r", "s", "t", "u", "v", "w", "x", "y", "z">>

\* One character of str.lower() / SQL lower(): ASCII letters fold, the rest stay.
LowerOf ==
    [c \in {UpperLetters[i] : i \in 1..Len(UpperLetters)} |->
        LowerLetters[CHOOSE i \in 1..Len(UpperLetters) : UpperLetters[i] = c]]

LowerChar(c) == IF c \in DOMAIN LowerOf THEN LowerOf[c] ELSE c

\* str.lower() of a text, as the evaluate endpoint applies it to category and brand.
Lower(s) == [i \in 1..Len(s) |-> LowerChar(s[i])]

\* SQL "value ILIKE pat": "%" matches any run of characters, "_" any one
\* character, every other character matches itself regardless of case.
RECURSIVE LikeFrom(_, _, _, _)
LikeFrom(pat, i, s, j) ==
    IF i > Len(pat) THEN j > Len(s)
    ELSE IF pat[i] = "%"
         THEN LikeFrom(pat, i + 1, s, j) \/ (j <= Len(s) /\ LikeFrom(pat, i, s, j + 1))
         ELSE /\ j <= Len(s)
              /\ (pat[i] = "_" \/ LowerChar(pat[i]) = LowerChar(s[j]))
              /\ LikeFrom(pat, i + 1, s, j + 1)

Like(pat, s) == LikeFrom(pat, 1, s, 1)

\* Variant of the pattern match: characters compare as they are (LIKE on a
\* case-sensitive collation).
RECURSIVE LikeFromExact(_, _, _, _)
LikeFromExact(pat, i, s, j) ==
    IF i > Len(pat) THEN j > Len(s)
    ELSE IF pat[i] = "%"
         THEN LikeFromExact(pat, i + 1, s, j)
                 \/ (j <= Len(s) /\ LikeFromExact(pat, i, s, j + 1))
         ELSE /\ j <= Len(s)
              /\ (pat[i] = "_" \/ pat[i] = s[j])
              /\ LikeFromExact(pat, i + 1, s, j + 1)

IlikeCaseSensitive(column, needle) ==
    LikeFromExact(<<"%">> \o needle \o <<"%">>, 1, column, 1)

\* column.ilike(f'%{needle}%')
Ilike(column, needle) == Like(<<"%">> \o needle \o <<"%">>, column)

(***************************************************************************)
(* Values.                                                                 *)
(***************************************************************************)
\* Python None in an Optional[int] / Optional[float] field.
None == -1

PrefIds == 1..NPrefs
UserIds == {1, 2}

NoProposal ==
    [item_id |-> "", category |-> <<>>, brand |-> <<>>,
     starting_price |-> 0, max_price |-> 0, auction_id |-> ""]

\* BidDecision(success, user_id=None, bid_amount=None, reason=None)
BidDecision(success, user_id, bid_amount, reason) ==
    [success |-> success, user_id |-> user_id, bid_amount |-> bid_amount,
     reason |-> reason]

NoDecision == BidDecision(FALSE, None, None, "")

\* A JSON response and its status code.
Response(status, error, success, user_id, bid_amount, auction_id, item_id, reason) ==
    [status |-> status, error |-> error, success |-> success, user_id |-> user_id,
     bid_amount |-> bid_amount, auction_id |-> auction_id, item_id |-> item_id,
     reason |-> reason]

ErrorResponse(status, error) ==
    Response(status, error, FALSE, None, None, "", "", "")

NoResponse == ErrorResponse(0, "")

\* A request of POST /api/v1/auctions/evaluate in progress: where it stands,
\* its local variables proposal and decision, what store_auction_event
\* returned, the id of the row it added and the status code it answered.
Workers == 1..NWorkers

IdleWorker ==
    [pc |-> "idle", proposal |-> NoProposal, decision |-> NoDecision,
     stored |-> "none", event_id |-> 0, status |-> 0]

(***************************************************************************)
(* round(bid_amount, 2) on IEEE doubles.                                   *)
(*                                                                         *)
(* A value that is not half-way between two cents rounds as in decimal.    *)
(* A decimal half-way value (x.xx5) is in general not a double; the double *)
(* that stands for it lies just below or just above it and round() follows *)
(* the double.  The side is tabulated for the amounts used here.           *)
(***************************************************************************)
\* starting prices s (mills) for which the double s * 1.05 lies above / below
\* the decimal product (only half-way products are listed)
ProductAbove == {100, 300, 500, 1100}
ProductBelow == {}
\* amounts v (mills) whose double lies above / below the decimal value
\* (only half-way amounts are listed)
LiteralAbove == {5, 25, 35}
LiteralBelow == {15, 45, 105, 1005, 1015, 1025}

ProductSide(s) ==
    IF s \in ProductAbove THEN 2 ELSE IF s \in ProductBelow THEN 0 ELSE 1
LiteralSide(v) ==
    IF v \in LiteralAbove THEN 2 ELSE IF v \in LiteralBelow THEN 0 ELSE 1

\* A float as <<decimal value in 10^-5 units, side of the double>>.
FloatLess(a, b) == a[1] < b[1] \/ (a[1] = b[1] /\ a[2] < b[2])

\* Python min(a, b): b only when b < a.
FloatMin(a, b) == IF FloatLess(b, a) THEN b ELSE a

\* round(x, 2), result in mills.
Round2(x) ==
    LET q == x[1] \div 1000
        r == x[1] % 1000
    IN  IF r < 500 THEN q * 10
        ELSE IF r > 500 THEN (q + 1) * 10
        ELSE IF x[2] = 0 THEN q * 10
        ELSE IF x[2] = 2 THEN (q + 1) * 10
        ELSE IF q % 2 = 0 THEN q * 10 ELSE (q + 1) * 10

(***************************************************************************)
(* DecisionEngine.evaluate_auction                                         *)
(***************************************************************************)
\* Variants of the filter: one forgets the budget, one the active flag.
PassesFilterNoBudget(pref, prop) ==
    /\ Ilike(pref.category, prop.category)
    /\ Ilike(pref.brand, prop.brand)
    /\ pref.is_active = TRUE

PassesFilterIgnoringActive(pref, prop) ==
    /\ Ilike(pref.category, prop.category)
    /\ Ilike(pref.brand, prop.brand)
    /\ pref.max_budget >= prop.starting_price

\* The filter of the query: category, brand, budget, active flag.
PassesFilter(pref, prop) ==
    /\ Ilike(pref.category, prop.category)
    /\ Ilike(pref.brand, prop.brand)
    /\ pref.max_budget >= prop.starting_price
    /\ pref.is_active = TRUE

\* .all(): the rows that pass, in row-id order.
MatchingPreferences(pool, prop) ==
    SelectSeq([i \in 1..NPrefs |-> i], LAMBDA i : PassesFilter(pool[i], prop))

\* Variant of the selection: min instead of max.
RECURSIVE MinByBudget(_, _)
MinByBudget(pool, ids) ==
    IF Len(ids) = 1 THEN ids[1]
    ELSE LET best == MinByBudget(pool, SubSeq(ids, 1, Len(ids) - 1))
             last == ids[Len(ids)]
         IN  IF pool[last].max_budget < pool[best].max_budget THEN last ELSE best

\* max(matching_preferences, key=lambda p: p.max_budget): the first row among
\* those of greatest budget.
RECURSIVE MaxByBudget(_, _)
MaxByBudget(pool, ids) ==
    IF Len(ids) = 1 THEN ids[1]
    ELSE LET best == MaxByBudget(pool, SubSeq(ids, 1, Len(ids) - 1))
             last == ids[Len(ids)]
         IN  IF pool[last].max_budget > pool[best].max_budget THEN last ELSE best

\* Variant of the pricing: the max_price ceiling is forgotten.
CappedBidNoCeiling(prop, pref) ==
    FloatMin(<<prop.starting_price * 105, ProductSide(prop.starting_price)>>,
             <<pref.max_budget * 100, LiteralSide(pref.max_budget)>>)

\* min(starting_price * 1.05, max_budget), then the max_price ceiling.
CappedBid(prop, pref) ==
    LET bid == FloatMin(<<prop.starting_price * 105, ProductSide(prop.starting_price)>>,
                        <<pref.max_budget * 100, LiteralSide(pref.max_budget)>>)
        ceiling == <<prop.max_price * 100, LiteralSide(prop.max_price)>>
    IN  IF FloatLess(ceiling, bid) THEN ceiling ELSE bid

\* Variant of the evaluation: a user who already holds an accepted bid in the
\* ledger is passed over.
EvaluateAuctionSkipsServed(pool, prop) ==
    LET served == {ledger[k].user_id : k \in {j \in 1..Len(ledger) :
                                                ledger[j].event_type = "bid_accepted"}}
        matching_preferences ==
            SelectSeq(MatchingPreferences(pool, prop),
                      LAMBDA i : pool[i].user_id \notin served)
    IN  IF matching_preferences = <<>>
        THEN BidDecision(FALSE, None, None, "no_match")
        ELSE LET best_preference == pool[MaxByBudget(pool, matching_preferences)]
             IN  BidDecision(TRUE, best_preference.user_id,
                             Round2(CappedBid(prop, best_preference)), "optimal")

\* The decision returned when the query succeeds.
EvaluateAuction(pool, prop) ==
    LET matching_preferences == MatchingPreferences(pool, prop)
    IN  IF matching_preferences = <<>>
        THEN BidDecision(FALSE, None, None, "no_match")
        ELSE LET best_preference == pool[MaxByBudget(pool, matching_preferences)]
             IN  BidDecision(TRUE, best_preference.user_id,
                             Round2(CappedBid(prop, best_preference)), "optimal")

\* Variant of the except branch: an amount of 0 instead of none.
TechnicalErrorWithAmount == BidDecision(FALSE, None, 0, "technical_error")

\* The decision returned by the except branch.
TechnicalError == BidDecision(FALSE, None, None, "technical_error")

(***************************************************************************)
(* Inputs of the engine specification.                                     *)
(***************************************************************************)
PrefCategories == {robe, Robes}
PrefBrands == {dior}
Budgets == {1005, 2500000}
ProposalCategories == {robe, ROBE, robes, r_be, jupe}
ProposalBrands == {dior, DIOR, nike}
StartingPrices == {0, 100, 1000, 1004, 750330, 2400000}
MaxPrices == {1000, 1006, 2450000, 2800000}

Preferences ==
    [user_id : UserIds, category : PrefCategories, brand : PrefBrands,
     max_budget : Budgets, is_active : {TRUE}]

\* Proposals that vary the text against one price range, and proposals that
\* vary the prices against one text.
TextProposals ==
    [item_id : {"i1"}, category : ProposalCategories, brand : ProposalBrands,
     starting_price : {2000000}, max_price : {2800000}, auction_id : {"a1"}]
PriceProposals ==
    [item_id : {"i1"}, category : {ROBE}, brand : {DIOR},
     starting_price : StartingPrices, max_price : MaxPrices, auction_id : {"a1"}]
EngineProposals == TextProposals \cup PriceProposals
(***************************************************************************)
(* Engine specification: evaluate_auction called directly on a pool.       *)
(***************************************************************************)
EngineInit ==
    /\ prefs \in [PrefIds -> Preferences]
    /\ lastOp = "init"
    /\ proposal \in EngineProposals
    /\ decision = NoDecision
    /\ escaped = FALSE
    /\ ledger = <<>>
    /\ stored = "none"
    /\ response = NoResponse
    /\ workers = [w \in Workers |-> IdleWorker]

\* evaluate_auction(proposal), the query answers.
Evaluate ==
    /\ UNCHANGED <<prefs, proposal, ledgerVars, workers>>
    /\ lastOp' = "evaluate"
    /\ escaped' = FALSE
    /\ decision' = EvaluateAuction(prefs, proposal)

\* Variant of the faulting call: no except branch, the exception leaves.
EvaluateFaultEscapes ==
    /\ UNCHANGED <<prefs, proposal, decision, ledgerVars, workers>>
    /\ lastOp' = "evaluate_fault"
    /\ escaped' = TRUE

\* evaluate_auction(proposal), the query raises.
EvaluateFault ==
    /\ UNCHANGED <<prefs, proposal, ledgerVars, workers>>
    /\ lastOp' = "evaluate_fault"
    /\ escaped' = FALSE
    /\ decision' = TechnicalError

\* The administration collaborator retires / restores a preference.
Deactivate(i) ==
    /\ prefs[i].is_active
    /\ prefs' = [prefs EXCEPT ![i].is_active = FALSE]
    /\ UNCHANGED <<engineVars, ledgerVars, workers>>

Activate(i) ==
    /\ ~prefs[i].is_active
    /\ prefs' = [prefs EXCEPT ![i].is_active = TRUE]
    /\ UNCHANGED <<engineVars, ledgerVars, workers>>

EngineNext ==
    \/ Evaluate
    \/ EvaluateFault
    \/ \E i \in PrefIds : Deactivate(i)
    \/ \E i \in PrefIds : Activate(i)

EngineSpec == EngineInit /\ [][EngineNext]_vars

(***************************************************************************)
(* DataWarehouseService and the two endpoints.                             *)
(***************************************************************************)
\* A row of auction_events (the id is the position in the ledger).
AuctionEvent(auction_id, item_id, user_id, event_type, bid_amount, category, brand, starting_price, max_price, decision_reason) ==
    [auction_id |-> auction_id, item_id |-> item_id, user_id |-> user_id,
     event_type |-> event_type, bid_amount |-> bid_amount, category |-> category,
     brand |-> brand, starting_price |-> starting_price, max_price |-> max_price,
     decision_reason |-> decision_reason]

\* Variant of store_auction_event: no rollback, the pending row is flushed by
\* the next commit of the session.
StoreAuctionEventNoRollback(led, auction_id, item_id, prop, dec, event_type, fault) ==
    [ledger |-> Append(led, AuctionEvent(auction_id, item_id, dec.user_id, event_type,
                                         dec.bid_amount, prop.category, prop.brand,
                                         prop.starting_price, prop.max_price,
                                         dec.reason)),
     ok |-> IF fault THEN "false" ELSE "true"]

\* Variant of store_auction_event: an existing row of the same auction and
\* item is replaced (session.merge on the pair) instead of a row being added.
StoreAuctionEventUpsert(led, auction_id, item_id, prop, dec, event_type, fault) ==
    LET event == AuctionEvent(auction_id, item_id, dec.user_id, event_type,
                              dec.bid_amount, prop.category, prop.brand,
                              prop.starting_price, prop.max_price, dec.reason)
        same == {k \in 1..Len(led) :
                    led[k].auction_id = auction_id /\ led[k].item_id = item_id}
    IN  IF fault
        THEN [ledger |-> led, ok |-> "false"]
        ELSE IF same = {}
        THEN [ledger |-> Append(led, event), ok |-> "true"]
        ELSE [ledger |-> [k \in 1..Len(led) |-> IF k \in same THEN event ELSE led[k]],
              ok |-> "true"]

\* store_auction_event: add and commit, or roll back on a fault.
StoreAuctionEvent(led, auction_id, item_id, prop, dec, event_type, fault) ==
    LET event == AuctionEvent(auction_id, item_id, dec.user_id, event_type,
                              dec.bid_amount, prop.category, prop.brand,
                              prop.starting_price, prop.max_price, dec.reason)
    IN  IF fault
        THEN [ledger |-> led, ok |-> "false"]
        ELSE [ledger |-> Append(led, event), ok |-> "true"]

\* Variants of the lookup: one forgets the item id, one the event type.
FindAcceptedAnyItem(led, auction_id, item_id) ==
    LET hits == {k \in 1..Len(led) :
                    /\ led[k].auction_id = auction_id
                    /\ led[k].event_type = "bid_accepted"}
    IN  IF hits = {} THEN 0 ELSE CHOOSE k \in hits : \A j \in hits : k <= j

FindAnyEvent(led, auction_id, item_id) ==
    LET hits == {k \in 1..Len(led) :
                    /\ led[k].auction_id = auction_id
                    /\ led[k].item_id = item_id}
    IN  IF hits = {} THEN 0 ELSE CHOOSE k \in hits : \A j \in hits : k <= j

\* Variant of the lookup: the last matching row instead of the first.
FindAcceptedLast(led, auction_id, item_id) ==
    LET hits == {k \in 1..Len(led) :
                    /\ led[k].auction_id = auction_id
                    /\ led[k].item_id = item_id
                    /\ led[k].event_type = "bid_accepted"}
    IN  IF hits = {} THEN 0 ELSE CHOOSE k \in hits : \A j \in hits : j <= k

\* Variant of the lookup: an accepted row whose pair already has an outcome
\* row is no longer found.
FindAcceptedUnsettled(led, auction_id, item_id) ==
    LET hits == {k \in 1..Len(led) :
                    /\ led[k].auction_id = auction_id
                    /\ led[k].item_id = item_id
                    /\ led[k].event_type = "bid_accepted"}
        settled == \E k \in 1..Len(led) :
                      /\ led[k].auction_id = auction_id
                      /\ led[k].item_id = item_id
                      /\ led[k].event_type \in {"bid_won", "bid_lost"}
    IN  IF hits = {} \/ settled THEN 0
        ELSE CHOOSE k \in hits : \A j \in hits : k <= j

\* filter_by(auction_id, item_id, event_type='bid_accepted').first(): the
\* position of the first such row, 0 when there is none.
FindAccepted(led, auction_id, item_id) ==
    LET hits == {k \in 1..Len(led) :
                    /\ led[k].auction_id = auction_id
                    /\ led[k].item_id = item_id
                    /\ led[k].event_type = "bid_accepted"}
    IN  IF hits = {} THEN 0 ELSE CHOOSE k \in hits : \A j \in hits : k <= j

\* Request bodies of POST /api/v1/auctions/evaluate.  kind tells how the body
\* is formed: "ok", "no_json" (an empty object), "missing_field", "non_numeric" (a
\* price such as "abc": float() raises ValueError), "bad_type" (a category
\* that is no string: .lower() raises AttributeError).
EvaluatePayload(kind, auction_id, item_id, category, brand, starting_price, max_price) ==
    [kind |-> kind, auction_id |-> auction_id, item_id |-> item_id,
     category |-> category, brand |-> brand,
     starting_price |-> starting_price, max_price |-> max_price]

WellFormedEvaluatePayloads ==
    { EvaluatePayload("ok", "a1", "i1", ROBE, DIOR, 2000000, 2800000),
      EvaluatePayload("ok", "a1", "i1", manteau, gucci, 2400000, 2450000),
      EvaluatePayload("ok", "a2", "i1", chaussures, nike, 100000, 200000) }

MalformedEvaluatePayloads ==
    { EvaluatePayload("no_json", "", "", <<>>, <<>>, 0, 0),
      EvaluatePayload("missing_field", "a1", "i1", robe, dior, 2000000, 0),
      EvaluatePayload("non_numeric", "a1", "i1", robe, dior, 0, 2800000),
      EvaluatePayload("bad_type", "a1", "i1", <<>>, dior, 2000000, 2800000) }

\* Request bodies of POST /api/v1/auctions/result.
Pairs == {<<"a1", "i1">>, <<"a1", "i2">>, <<"a2", "i1">>}

ResultPayload(kind, auction_id, item_id, won) ==
    [kind |-> kind, auction_id |-> auction_id, item_id |-> item_id, won |-> won]

WellFormedResultPayloads ==
    {ResultPayload("ok", pair[1], pair[2], won) : pair \in Pairs, won \in BOOLEAN}

MalformedResultPayloads ==
    {ResultPayload(kind, "a1", "i1", TRUE) : kind \in {"no_json", "missing_field"}}

\* Where the storage fails during an outcome request.
Faults == {"none", "query", "commit"}

\* The six preferences of init_db, in insertion order.
DbPreferences ==
    << [user_id |-> 1, category |-> robe, brand |-> dior,
        max_budget |-> 2500000, is_active |-> TRUE],
       [user_id |-> 1, category |-> manteau, brand |-> gucci,
        max_budget |-> 3000000, is_active |-> TRUE],
       [user_id |-> 2, category |-> <<"p", "a", "n", "t", "a", "l", "o", "n">>,
        brand |-> <<"s", "a", "i", "n", "t", "_", "l", "a", "u", "r", "e", "n", "t">>,
        max_budget |-> 800000, is_active |-> TRUE],
       [user_id |-> 2, category |-> <<"c", "h", "e", "m", "i", "s", "e">>,
        brand |-> gucci, max_budget |-> 600000, is_active |-> TRUE],
       [user_id |-> 3, category |-> jupe,
        brand |-> <<"l", "o", "u", "i", "s", "_", "v", "u", "i", "t", "t", "o", "n">>,
        max_budget |-> 1200000, is_active |-> TRUE],
       [user_id |-> 3, category |-> <<"p", "a", "r", "k", "a">>,
        brand |-> <<"l", "a", "n", "c", "e", "l">>,
        max_budget |-> 900000, is_active |-> TRUE] >>

\* The database after init_db (its first NPrefs preferences), empty ledger.
Init ==
    /\ prefs = [i \in PrefIds |-> DbPreferences[i]]
    /\ lastOp = "init"
    /\ proposal = NoProposal
    /\ decision = NoDecision
    /\ escaped = FALSE
    /\ ledger = <<>>
    /\ stored = "none"
    /\ response = NoResponse
    /\ workers = [w \in Workers |-> IdleWorker]

\* Variant of the evaluate endpoint: only a successful decision is stored.
ApiEvaluateSkipsRejected(data, query_fault, commit_fault) ==
    /\ lastOp' = "api_evaluate"
    /\ UNCHANGED <<prefs, proposal, decision, escaped, workers>>
    /\ IF data.kind \in {"no_json", "missing_field", "non_numeric", "bad_type"}
       THEN /\ response' = CASE data.kind = "no_json" -> ErrorResponse(400, "payload_required")
                             [] data.kind = "missing_field" -> ErrorResponse(400, "missing_fields")
                             [] data.kind = "non_numeric" -> ErrorResponse(400, "invalid_data")
                             [] OTHER -> ErrorResponse(500, "internal")
            /\ stored' = "none"
            /\ ledger' = ledger
       ELSE LET prop == [item_id |-> data.item_id,
                         category |-> Lower(data.category),
                         brand |-> Lower(data.brand),
                         starting_price |-> data.starting_price,
                         max_price |-> data.max_price,
                         auction_id |-> data.auction_id]
                dec == IF query_fault THEN TechnicalError
                       ELSE EvaluateAuction(prefs, prop)
                event_type == IF dec.success THEN "bid_accepted" ELSE "bid_rejected"
                st == IF dec.success
                      THEN StoreAuctionEvent(ledger, prop.auction_id, prop.item_id,
                                             prop, dec, event_type, commit_fault)
                      ELSE [ledger |-> ledger, ok |-> "none"]
            IN  /\ Len(st.ledger) <= MaxLedger
                /\ ledger' = st.ledger
                /\ stored' = st.ok
                /\ response' =
                     IF dec.success
                     THEN Response(200, "", TRUE, dec.user_id, dec.bid_amount,
                                   prop.auction_id, prop.item_id, dec.reason)
                     ELSE Response(422, "", FALSE, None, None,
                                   prop.auction_id, prop.item_id, dec.reason)

\* POST /api/v1/auctions/evaluate
ApiEvaluate(data, query_fault, commit_fault) ==
    /\ lastOp' = "api_evaluate"
    /\ UNCHANGED <<prefs, proposal, decision, escaped, workers>>
    /\ IF data.kind \in {"no_json", "missing_field", "non_numeric", "bad_type"}
       THEN /\ response' = CASE data.kind = "no_json" -> ErrorResponse(400, "payload_required")
                             [] data.kind = "missing_field" -> ErrorResponse(400, "missing_fields")
                             [] data.kind = "non_numeric" -> ErrorResponse(400, "invalid_data")
                             [] OTHER -> ErrorResponse(500, "internal")
            /\ stored' = "none"
            /\ ledger' = ledger
       ELSE LET prop == [item_id |-> data.item_id,
                         category |-> Lower(data.category),
                         brand |-> Lower(data.brand),
                         starting_price |-> data.starting_price,
                         max_price |-> data.max_price,
                         auction_id |-> data.auction_id]
                dec == IF query_fault THEN TechnicalError
                       ELSE EvaluateAuction(prefs, prop)
                event_type == IF dec.success THEN "bid_accepted" ELSE "bid_rejected"
                st == StoreAuctionEvent(ledger, prop.auction_id, prop.item_id,
                                        prop, dec, event_type, commit_fault)
            IN  /\ Len(st.ledger) <= MaxLedger
                /\ ledger' = st.ledger
                /\ stored' = st.ok
                /\ response' =
                     IF dec.success
                     THEN Response(200, "", TRUE, dec.user_id, dec.bid_amount,
                                   prop.auction_id, prop.item_id, dec.reason)
                     ELSE Response(422, "", FALSE, None, None,
                                   prop.auction_id, prop.item_id, dec.reason)

\* Variant of the outcome endpoint: the result row does not take over the
\* accepted row's bid amount.
ApiResultNoAmount(data, fault) ==
    /\ lastOp' = "api_result"
    /\ stored' = "none"
    /\ UNCHANGED <<prefs, proposal, decision, escaped, workers>>
    /\ IF data.kind = "no_json"
       THEN response' = ErrorResponse(400, "payload_required") /\ ledger' = ledger
       ELSE IF data.kind = "missing_field"
       THEN response' = ErrorResponse(400, "missing_fields") /\ ledger' = ledger
       ELSE IF fault = "query"
       THEN response' = ErrorResponse(500, "internal") /\ ledger' = ledger
       ELSE LET k == FindAccepted(ledger, data.auction_id, data.item_id)
            IN  IF k = 0
                THEN response' = ErrorResponse(404, "not_found") /\ ledger' = ledger
                ELSE IF fault = "commit"
                THEN response' = ErrorResponse(500, "internal") /\ ledger' = ledger
                ELSE LET original_event == ledger[k]
                         result_event ==
                             AuctionEvent(data.auction_id, data.item_id,
                                          original_event.user_id,
                                          IF data.won THEN "bid_won" ELSE "bid_lost",
                                          None,
                                          original_event.category,
                                          original_event.brand,
                                          original_event.starting_price,
                                          original_event.max_price,
                                          IF data.won THEN "won" ELSE "lost")
                     IN  /\ Len(ledger) < MaxLedger
                         /\ ledger' = Append(ledger, result_event)
                         /\ response' = Response(200, "", TRUE, None, None,
                                                 data.auction_id, "", "recorded")

\* POST /api/v1/auctions/result
ApiResult(data, fault) ==
    /\ lastOp' = "api_result"
    /\ stored' = "none"
    /\ UNCHANGED <<prefs, proposal, decision, escaped, workers>>
    /\ IF data.kind = "no_json"
       THEN response' = ErrorResponse(400, "payload_required") /\ ledger' = ledger
       ELSE IF data.kind = "missing_field"
       THEN response' = ErrorResponse(400, "missing_fields") /\ ledger' = ledger
       ELSE IF fault = "query"
       THEN response' = ErrorResponse(500, "internal") /\ ledger' = ledger
       ELSE LET k == FindAccepted(ledger, data.auction_id, data.item_id)
            IN  IF k = 0
                THEN response' = ErrorResponse(404, "not_found") /\ ledger' = ledger
                ELSE IF fault = "commit"
                THEN response' = ErrorResponse(500, "internal") /\ ledger' = ledger
                ELSE LET original_event == ledger[k]
                         result_event ==
                             AuctionEvent(data.auction_id, data.item_id,
                                          original_event.user_id,
                                          IF data.won THEN "bid_won" ELSE "bid_lost",
                                          original_event.bid_amount,
                                          original_event.category,
                                          original_event.brand,
                                          original_event.starting_price,
                                          original_event.max_price,
                                          IF data.won THEN "won" ELSE "lost")
                     IN  /\ Len(ledger) < MaxLedger
                         /\ ledger' = Append(ledger, result_event)
                         /\ response' = Response(200, "", TRUE, None, None,
                                                 data.auction_id, "", "recorded")

Next ==
    \/ \E data \in WellFormedEvaluatePayloads, query_fault \in BOOLEAN,
          commit_fault \in BOOLEAN : ApiEvaluate(data, query_fault, commit_fault)
    \/ \E data \in MalformedEvaluatePayloads : ApiEvaluate(data, FALSE, FALSE)
    \/ \E data \in WellFormedResultPayloads, fault \in Faults : ApiResult(data, fault)
    \/ \E data \in MalformedResultPayloads : ApiResult(data, "none")

Spec == Init /\ [][Next]_vars

(***************************************************************************)
(* Concurrent evaluate requests.                                           *)
(*                                                                         *)
(* Each request runs in its own thread with its own database session and   *)
(* takes no lock.  It touches the shared tables twice: the query of         *)
(* evaluate_auction reads user_preferences, the commit of                   *)
(* store_auction_event writes auction_events.  Everything else is local to  *)
(* the request.  The database makes each query and each commit atomic.      *)
(***************************************************************************)
\* The requests that race: two proposals of the pair (a1, i1).
ConcurrentPayloads ==
    {data \in WellFormedEvaluatePayloads :
        data.auction_id = "a1" /\ data.item_id = "i1"}

\* The row a request adds.
OwnEvent(me) ==
    AuctionEvent(me.proposal.auction_id, me.proposal.item_id, me.decision.user_id,
                 IF me.decision.success THEN "bid_accepted" ELSE "bid_rejected",
                 me.decision.bid_amount, me.proposal.category, me.proposal.brand,
                 me.proposal.starting_price, me.proposal.max_price,
                 me.decision.reason)

\* The request is validated, the proposal built and evaluate_auction reads
\* the preferences.
ReadPreferences(w, data, query_fault) ==
    /\ workers[w].pc = "idle"
    /\ UNCHANGED <<prefs, engineVars, ledgerVars>>
    /\ LET prop == [item_id |-> data.item_id,
                    category |-> Lower(data.category),
                    brand |-> Lower(data.brand),
                    starting_price |-> data.starting_price,
                    max_price |-> data.max_price,
                    auction_id |-> data.auction_id]
           dec == IF query_fault THEN TechnicalError
                  ELSE EvaluateAuction(prefs, prop)
       IN  workers' = [workers EXCEPT ![w] =
                          [@ EXCEPT !.pc = "evaluated", !.proposal = prop,
                                    !.decision = dec]]

\* Variant of the commit: a row of the same auction and item already in the
\* table makes the commit fail (a unique index on the pair).
CommitEventUniquePair(w, commit_fault) ==
    /\ workers[w].pc = "evaluated"
    /\ UNCHANGED <<prefs, engineVars, stored, response>>
    /\ LET me == workers[w]
           taken == \E k \in 1..Len(ledger) :
                       /\ ledger[k].auction_id = me.proposal.auction_id
                       /\ ledger[k].item_id = me.proposal.item_id
           st == StoreAuctionEvent(ledger, me.proposal.auction_id,
                                   me.proposal.item_id, me.proposal, me.decision,
                                   IF me.decision.success THEN "bid_accepted"
                                   ELSE "bid_rejected",
                                   commit_fault \/ taken)
       IN  /\ ledger' = st.ledger
           /\ workers' = [workers EXCEPT ![w] =
                             [@ EXCEPT !.pc = "done", !.stored = st.ok,
                                       !.event_id = IF st.ok = "true"
                                                    THEN Len(st.ledger) ELSE 0,
                                       !.status = IF me.decision.success
                                                  THEN 200 ELSE 422]]

\* store_auction_event adds the row and commits (or rolls back), then the
\* request answers.
CommitEvent(w, commit_fault) ==
    /\ workers[w].pc = "evaluated"
    /\ UNCHANGED <<prefs, engineVars, stored, response>>
    /\ LET me == workers[w]
           st == StoreAuctionEvent(ledger, me.proposal.auction_id,
                                   me.proposal.item_id, me.proposal, me.decision,
                                   IF me.decision.success THEN "bid_accepted"
                                   ELSE "bid_rejected",
                                   commit_fault)
       IN  /\ ledger' = st.ledger
           /\ workers' = [workers EXCEPT ![w] =
                             [@ EXCEPT !.pc = "done", !.stored = st.ok,
                                       !.event_id = IF st.ok = "true"
                                                    THEN Len(st.ledger) ELSE 0,
                                       !.status = IF me.decision.success
                                                  THEN 200 ELSE 422]]

ConcNext ==
    \/ \E w \in Workers, data \in ConcurrentPayloads, query_fault \in BOOLEAN :
          ReadPreferences(w, data, query_fault)
    \/ \E w \in Workers, commit_fault \in BOOLEAN : CommitEvent(w, commit_fault)
    \/ \E i \in PrefIds : Deactivate(i)
    \/ \E i \in PrefIds : Activate(i)

ConcSpec == Init /\ [][ConcNext]_vars

(***************************************************************************)
(* Properties of the engine (checked under EngineSpec).                    *)
(***************************************************************************)
Min(a, b) == IF a <= b THEN a ELSE b

\* Case-insensitive literal containment of needle in hay.
Contains(hay, needle) ==
    \E k \in 0..(Len(hay) - Len(needle)) :
        \A j \in 1..Len(needle) : LowerChar(hay[k + j]) = LowerChar(needle[j])

\* Preference i is active, its tags match the proposal and its budget covers
\* the starting price.
Survivor(i) ==
    /\ prefs[i].is_active
    /\ Ilike(prefs[i].category, proposal.category)
    /\ Ilike(prefs[i].brand, proposal.brand)
    /\ prefs[i].max_budget >= proposal.starting_price

Survivors == {i \in PrefIds : Survivor(i)}

\* The budget of the selected preference: the greatest among the survivors.
SelectedBudget ==
    LET budgets == {prefs[i].max_budget : i \in Survivors}
    IN  CHOOSE b \in budgets : \A c \in budgets : c <= b

\* The uncapped, unrounded amount of the pricing formula, in 10^-5 units.
CappedExact ==
    Min(Min(proposal.starting_price * 105, SelectedBudget * 100),
        proposal.max_price * 100)

Absent(d) == d.user_id = None /\ d.bid_amount = None
Present(d) == d.user_id # None /\ d.bid_amount # None

\* C1: whenever some active preference contains the proposal's category and
\* brand and has a budget of at least the starting price (0 <= starting price
\* <= max price), the decision succeeds with a user id and a bid amount that
\* is at most min(selected budget, max price).
C1_BidWithinCaps ==
    [][(/\ Evaluate
        /\ 0 <= proposal.starting_price
        /\ proposal.starting_price <= proposal.max_price
        /\ \E i \in PrefIds :
              /\ prefs[i].is_active
              /\ Contains(prefs[i].category, proposal.category)
              /\ Contains(prefs[i].brand, proposal.brand)
              /\ prefs[i].max_budget >= proposal.starting_price)
       => (/\ decision'.success
           /\ decision'.user_id # None
           /\ decision'.bid_amount # None
           /\ decision'.bid_amount <= Min(SelectedBudget, proposal.max_price))]_vars

\* C2: a successful decision's bid amount is the pricing formula
\* min(min(starting price x 1.05, budget), max price) rounded once, at the
\* end, to the nearest cent; the documented examples give 2450.0, 2100.0 and
\* 787.85.
C2_BidFormula ==
    [][(Evaluate /\ decision'.success)
       => LET exact == CappedExact
              bid == decision'.bid_amount
              budget == SelectedBudget
          IN  /\ bid % 10 = 0
              /\ bid * 100 - exact <= 500
              /\ exact - bid * 100 <= 500
              /\ (exact % 1000 # 500
                    => bid * 100 - exact < 500 /\ exact - bid * 100 < 500)
              /\ ((/\ proposal.starting_price = 2400000
                   /\ proposal.max_price = 2450000
                   /\ budget = 2500000) => bid = 2450000)
              /\ ((/\ proposal.starting_price = 2000000
                   /\ proposal.max_price = 2800000
                   /\ budget = 2500000) => bid = 2100000)
              /\ ((/\ proposal.starting_price = 750330
                   /\ proposal.max_price = 2800000
                   /\ budget = 2500000) => bid = 787850)]_vars

C2_Witness ==
    /\ lastOp = "evaluate"
    /\ decision.success
    /\ decision.bid_amount = 2450000
    /\ proposal.starting_price = 2400000
    /\ proposal.max_price = 2450000

C4_DecisionCoupling ==
    lastOp \in {"evaluate", "evaluate_fault"}
       => /\ (decision.success => Present(decision))
          /\ (~decision.success => Absent(decision))

C4_Witness ==
    /\ lastOp = "evaluate_fault"
    /\ ~decision.success
    /\ Absent(decision)

\* C5: when preferences survive the filter, the decision names the user of a
\* survivor that no other survivor exceeds in budget; with several survivors
\* at the greatest budget the user is one of theirs.
C5_GreatestBudget ==
    [][Evaluate
       => LET survivors == Survivors
          IN  survivors # {}
                => /\ decision'.success
                   /\ \E i \in survivors :
                         /\ prefs[i].user_id = decision'.user_id
                         /\ \A j \in survivors :
                               prefs[j].max_budget <= prefs[i].max_budget]_vars

\* two survivors of different users tie at the greatest budget and a third
\* value is not chosen
C5_Witness ==
    /\ lastOp = "evaluate"
    /\ decision.success
    /\ \E i, j \in Survivors :
          /\ prefs[i].user_id # prefs[j].user_id
          /\ prefs[i].max_budget = prefs[j].max_budget
          /\ prefs[i].max_budget = SelectedBudget
          /\ decision.user_id \in {prefs[i].user_id, prefs[j].user_id}

\* C6: a successful decision names the user of a preference that was active
\* in the state the evaluation read, and while every preference that matches
\* the proposal is deactivated the evaluation of that proposal fails.
C6_InactiveNeverSelected ==
    [][Evaluate
       => /\ (decision'.success
                => \E i \in PrefIds :
                       prefs[i].is_active /\ prefs[i].user_id = decision'.user_id)
          /\ ((\A i \in PrefIds :
                  (/\ Ilike(prefs[i].category, proposal.category)
                   /\ Ilike(prefs[i].brand, proposal.brand)
                   /\ prefs[i].max_budget >= proposal.starting_price)
                  => ~prefs[i].is_active)
                => ~decision'.success)]_vars

\* the only matching preference is deactivated and the evaluation failed
C6_Witness ==
    /\ lastOp = "evaluate"
    /\ ~decision.success
    /\ \E i \in PrefIds :
          /\ ~prefs[i].is_active
          /\ Ilike(prefs[i].category, proposal.category)
          /\ Ilike(prefs[i].brand, proposal.brand)
          /\ prefs[i].max_budget >= proposal.starting_price
          /\ \A j \in PrefIds \ {i} :
                /\ prefs[j].is_active
                /\ ~Ilike(prefs[j].category, proposal.category)

\* C7: a fault while reading the preferences yields a failed decision with a
\* technical-error reason, user id and bid amount absent, and no exception
\* leaves evaluate_auction.
C7_FaultBecomesDecision ==
    /\ (lastOp = "evaluate_fault"
          => /\ ~decision.success
             /\ decision.reason = "technical_error"
             /\ Absent(decision)
             /\ ~escaped)
    /\ (lastOp = "evaluate" => ~escaped)

C7_Witness ==
    /\ lastOp = "evaluate_fault"
    /\ decision.reason = "technical_error"
    /\ ~escaped

(***************************************************************************)
(* Properties of the ledger and the endpoints (checked under Spec).        *)
(***************************************************************************)
IsAcceptedFor(e, auction_id, item_id) ==
    /\ e.event_type = "bid_accepted"
    /\ e.auction_id = auction_id
    /\ e.item_id = item_id

\* C8: store_auction_event returns true after appending exactly one event
\* (the one of the call) when storage succeeds; on a persistence fault it
\* returns false without raising and leaves the ledger as it was.
C8_StoreOrRollback ==
    [][(lastOp' = "api_evaluate" /\ stored' # "none")
       => \/ /\ stored' = "true"
             /\ Len(ledger') = Len(ledger) + 1
             /\ SubSeq(ledger', 1, Len(ledger)) = ledger
             /\ ledger'[Len(ledger')].auction_id = response'.auction_id
             /\ ledger'[Len(ledger')].item_id = response'.item_id
             /\ ledger'[Len(ledger')].user_id = response'.user_id
             /\ ledger'[Len(ledger')].bid_amount = response'.bid_amount
          \/ /\ stored' = "false"
             /\ ledger' = ledger
             /\ response'.status \in {200, 422}]_vars

\* a write that hit a fault after an earlier one succeeded
C8_Witness ==
    /\ lastOp = "api_evaluate"
    /\ stored = "false"
    /\ Len(ledger) = 1

\* C9: an outcome for a pair without an accepted event (the lookup itself
\* working) is answered not-found, which is neither the success nor the
\* persistence-fault answer, and appends nothing.
C9_OutcomeNotFound ==
    [][lastOp' = "api_result"
       => \/ /\ response'.status = 404
             /\ response'.error = "not_found"
             /\ response'.status \notin {200, 500}
             /\ ledger' = ledger
          \/ \A data \in WellFormedResultPayloads, fault \in {"none", "commit"} :
                ~(/\ \A k \in 1..Len(ledger) :
                        ~IsAcceptedFor(ledger[k], data.auction_id, data.item_id)
                  /\ ApiResult(data, fault))]_vars

\* not-found answered while the ledger holds a rejected event and an accepted
\* event of another pair
C9_Witness ==
    /\ lastOp = "api_result"
    /\ response.status = 404
    /\ \E k \in 1..Len(ledger) :
          /\ ledger[k].event_type = "bid_rejected"
          /\ \A j \in 1..Len(ledger) :
                ~IsAcceptedFor(ledger[j], ledger[k].auction_id, ledger[k].item_id)
    /\ \E k \in 1..Len(ledger) : ledger[k].event_type = "bid_accepted"

\* C10: every bid_won / bid_lost event of the ledger comes after a
\* bid_accepted event of the same (auction id, item id).
C10_OutcomeFollowsAccepted ==
    \A k \in 1..Len(ledger) :
        ledger[k].event_type \in {"bid_won", "bid_lost"}
           => \E j \in 1..(k - 1) :
                  IsAcceptedFor(ledger[j], ledger[k].auction_id, ledger[k].item_id)

\* an outcome recorded next to a rejected event of another pair
C10_Witness ==
    /\ \E k \in 1..Len(ledger) : ledger[k].event_type \in {"bid_won", "bid_lost"}
    /\ \E k \in 1..Len(ledger) : ledger[k].event_type = "bid_rejected"

\* C11: the ledger is append-only.  Every operation, successful or failed,
\* leaves the previous ledger as an unchanged prefix of the new one and adds
\* at most one event.
C11_AppendOnly ==
    [][\/ ledger' = ledger
       \/ /\ Len(ledger') = Len(ledger) + 1
          /\ \A k \in 1..Len(ledger) : ledger'[k] = ledger[k]]_vars

\* an outcome was appended after an accepted event, then an outcome request
\* failed on its commit and left both in place
C11_Witness ==
    /\ lastOp = "api_result"
    /\ response.status = 500
    /\ Len(ledger) = 2
    /\ ledger[1].event_type = "bid_accepted"
    /\ ledger[2].event_type \in {"bid_won", "bid_lost"}

\* Position k of the ledger holds the first accepted event of the pair.
IsFirstAccepted(k, auction_id, item_id) ==
    /\ IsAcceptedFor(ledger[k], auction_id, item_id)
    /\ \A j \in 1..(k - 1) : ~IsAcceptedFor(ledger[j], auction_id, item_id)

\* C12: the lookup of outcome recording returns the first event, in insertion
\* order, of kind bid_accepted with the given auction id and item id, or
\* nothing when there is none; with several accepted events of one pair the
\* outcome is correlated with the first, and no event of another kind is
\* returned.
C12_FirstAcceptedFound ==
    [][lastOp' = "api_result"
       => /\ \A pair \in Pairs :
                LET k == FindAccepted(ledger, pair[1], pair[2])
                IN  /\ k \in 0..Len(ledger)
                    /\ (k = 0 => \A j \in 1..Len(ledger) :
                                     ~IsAcceptedFor(ledger[j], pair[1], pair[2]))
                    /\ (k # 0 => IsFirstAccepted(k, pair[1], pair[2]))
          /\ (response'.status = 200
                => LET e == ledger'[Len(ledger')]
                   IN  \E k \in 1..Len(ledger) :
                          /\ IsFirstAccepted(k, e.auction_id, e.item_id)
                          /\ e.user_id = ledger[k].user_id
                          /\ e.bid_amount = ledger[k].bid_amount
                          /\ e.category = ledger[k].category
                          /\ e.brand = ledger[k].brand)]_vars

\* two accepted events of one pair with different amounts, and an outcome
\* that carries the amount of the first
C12_Witness ==
    /\ lastOp = "api_result"
    /\ response.status = 200
    /\ Len(ledger) = 3
    /\ IsAcceptedFor(ledger[1], ledger[3].auction_id, ledger[3].item_id)
    /\ IsAcceptedFor(ledger[2], ledger[3].auction_id, ledger[3].item_id)
    /\ ledger[1].bid_amount # ledger[2].bid_amount
    /\ ledger[3].event_type \in {"bid_won", "bid_lost"}
    /\ ledger[3].bid_amount = ledger[1].bid_amount

\* C13: when the accepted event is found and the commit goes through, outcome
\* recording appends exactly one event, of kind bid_won when the won flag is
\* true and bid_lost otherwise, whose user id, bid amount, category, brand,
\* starting price and max price are those of the accepted event the lookup
\* returned; the accepted event stays as it was (also when the commit fails,
\* where nothing is appended).
C13_OutcomeCopiesAccepted ==
    [][lastOp' = "api_result"
       => \A data \in WellFormedResultPayloads, fault \in {"none", "commit"} :
             (/\ \E k \in 1..Len(ledger) :
                    IsAcceptedFor(ledger[k], data.auction_id, data.item_id)
              /\ ApiResult(data, fault))
             => IF fault = "commit"
                THEN ledger' = ledger /\ response'.status = 500
                ELSE /\ response'.status = 200
                     /\ Len(ledger') = Len(ledger) + 1
                     /\ \A j \in 1..Len(ledger) : ledger'[j] = ledger[j]
                     /\ LET e == ledger'[Len(ledger')]
                        IN  /\ e.auction_id = data.auction_id
                            /\ e.item_id = data.item_id
                            /\ e.event_type =
                                  (IF data.won THEN "bid_won" ELSE "bid_lost")
                            /\ \E k \in 1..Len(ledger) :
                                  /\ IsFirstAccepted(k, data.auction_id, data.item_id)
                                  /\ e.user_id = ledger[k].user_id
                                  /\ e.bid_amount = ledger[k].bid_amount
                                  /\ e.category = ledger[k].category
                                  /\ e.brand = ledger[k].brand
                                  /\ e.starting_price = ledger[k].starting_price
                                  /\ e.max_price = ledger[k].max_price]_vars

\* a lost outcome recorded with the accepted event's user and amount
C13_Witness ==
    /\ lastOp = "api_result"
    /\ response.status = 200
    /\ Len(ledger) = 2
    /\ ledger[1].event_type = "bid_accepted"
    /\ ledger[2].event_type = "bid_lost"
    /\ ledger[2].user_id = ledger[1].user_id
    /\ ledger[2].bid_amount = ledger[1].bid_amount
    /\ ledger[2].bid_amount # None

(***************************************************************************)
(* Further properties of the engine (checked under EngineSpec).            *)
(***************************************************************************)
UpperOf ==
    [c \in {LowerLetters[i] : i \in 1..Len(LowerLetters)} |->
        UpperLetters[CHOOSE i \in 1..Len(LowerLetters) : LowerLetters[i] = c]]

Upper(s) == [i \in 1..Len(s) |-> IF s[i] \in DOMAIN UpperOf THEN UpperOf[s[i]] ELSE s[i]]

\* Two decisions agree on what the caller acts upon.
SameDecision(d, e) ==
    /\ d.success = e.success
    /\ d.user_id = e.user_id
    /\ d.bid_amount = e.bid_amount

\* C14: matching is case-insensitive.  The decision for a proposal is the
\* decision for the same proposal with category and brand in lower case and
\* the decision for it with both in upper case: same success flag, same
\* user, same bid amount.
C14_CaseInsensitive ==
    [][Evaluate
       => /\ SameDecision(decision',
                          EvaluateAuction(prefs,
                              [proposal EXCEPT !.category = Lower(proposal.category),
                                               !.brand = Lower(proposal.brand)]))
          /\ SameDecision(decision',
                          EvaluateAuction(prefs,
                              [proposal EXCEPT !.category = Upper(proposal.category),
                                               !.brand = Upper(proposal.brand)]))]_vars

\* 'ROBE' / 'DIOR' evaluated with success against a 'robe' / 'dior' preference
C14_Witness ==
    /\ lastOp = "evaluate"
    /\ decision.success
    /\ proposal.category = ROBE
    /\ proposal.brand = DIOR
    /\ \E i \in PrefIds :
          /\ prefs[i].category = robe
          /\ prefs[i].brand = dior
          /\ prefs[i].user_id = decision.user_id

\* One text contains the other, whichever is the longer.
Related(a, b) == Contains(a, b) \/ Contains(b, a)

\* C15: category and brand matching is loose on either side.  An active
\* preference whose budget covers the starting price passes the filter when
\* its category and the proposal's category are related by case-insensitive
\* substring containment, and likewise the brands, whether the longer value
\* is the preference's or the proposal's; the evaluation then succeeds.
C15_LooseOnEitherSide ==
    [][Evaluate
       => \A i \in PrefIds :
             (/\ prefs[i].is_active
              /\ prefs[i].max_budget >= proposal.starting_price
              /\ Related(prefs[i].category, proposal.category)
              /\ Related(prefs[i].brand, proposal.brand))
             => /\ PassesFilter(prefs[i], proposal)
                /\ decision'.success]_vars

(***************************************************************************)
(* Properties of concurrent requests (checked under ConcSpec).             *)
(***************************************************************************)
Committed == {w \in Workers : workers[w].pc = "done" /\ workers[w].stored = "true"}

\* C16: evaluate requests of one (auction id, item id) run concurrently
\* without a lock.  Under every interleaving of their preference reads and
\* ledger commits each request can take its next step whatever the others
\* have done, a commit that meets no fault appends although the pair already
\* has events, each committed request finds its own event in the row it
\* added, no two requests share a row, and the ledger holds exactly the rows
\* of the committed requests.
C16_ConcurrentAppends ==
    /\ \A w \in Workers :
          /\ (workers[w].pc = "idle"
                => \A data \in ConcurrentPayloads :
                       ENABLED ReadPreferences(w, data, FALSE))
          /\ (workers[w].pc = "evaluated"
                => ENABLED (CommitEvent(w, FALSE)
                              /\ ledger' = Append(ledger, OwnEvent(workers[w]))))
    /\ \A w \in Committed :
          /\ workers[w].event_id \in 1..Len(ledger)
          /\ ledger[workers[w].event_id] = OwnEvent(workers[w])
    /\ \A v, w \in Committed : v # w => workers[v].event_id # workers[w].event_id
    /\ Len(ledger) = Cardinality(Committed)

\* every request is done, and two of them have added an accepted event of
\* the same pair with different amounts
C16_Witness ==
    /\ \A w \in Workers : workers[w].pc = "done"
    /\ \E v, w \in Committed :
          /\ v # w
          /\ IsAcceptedFor(ledger[workers[v].event_id], "a1", "i1")
          /\ IsAcceptedFor(ledger[workers[w].event_id], "a1", "i1")
          /\ ledger[workers[v].event_id].bid_amount
                # ledger[workers[w].event_id].bid_amount

(***************************************************************************)
(* Further properties of the endpoints (checked under Spec).               *)
(***************************************************************************)
\* Event e records an evaluation, not ended by a fault, of the proposal that
\* the request body data carries.
IsEvaluationOf(e, data) ==
    /\ e.event_type \in {"bid_accepted", "bid_rejected"}
    /\ e.decision_reason # "technical_error"
    /\ e.category = Lower(data.category)
    /\ e.brand = Lower(data.brand)
    /\ e.starting_price = data.starting_price
    /\ e.max_price = data.max_price

\* C17: evaluation is a pure, independent computation.  An evaluation of a
\* proposal gives the decision (success, user id, bid amount) that every
\* earlier evaluation of the same proposal against the same preferences
\* gave, whatever the ledger holds and whatever evaluations and outcomes
\* came before; the preferences are left as they were, and so is the ledger
\* when the write of the decision does not go through.
C17_EvaluationIsPure ==
    [][lastOp' = "api_evaluate"
       => /\ prefs' = prefs
          /\ \A data \in WellFormedEvaluatePayloads, commit_fault \in BOOLEAN :
                ApiEvaluate(data, FALSE, commit_fault)
                => /\ (commit_fault => ledger' = ledger)
                   /\ \A k \in 1..Len(ledger) :
                         IsEvaluationOf(ledger[k], data)
                         => /\ (ledger[k].event_type = "bid_accepted")
                                  = response'.success
                            /\ ledger[k].user_id = response'.user_id
                            /\ ledger[k].bid_amount = response'.bid_amount]_vars

\* a proposal accepted, its outcome recorded, and the same proposal
\* evaluated again with the same answer
C17_Witness ==
    /\ lastOp = "api_evaluate"
    /\ response.status = 200
    /\ Len(ledger) = 3
    /\ ledger[1].event_type = "bid_accepted"
    /\ ledger[2].event_type \in {"bid_won", "bid_lost"}
    /\ ledger[3].event_type = "bid_accepted"
    /\ ledger[3].category = ledger[1].category
    /\ ledger[3].starting_price = ledger[1].starting_price
    /\ ledger[3].user_id = ledger[1].user_id
    /\ ledger[3].bid_amount = ledger[1].bid_amount
    /\ response.bid_amount = ledger[1].bid_amount

\* C18: absent a persistence fault, an evaluate request that passes input
\* validation appends exactly one event of the proposal's (auction id, item
\* id): bid_accepted with the decision's user id and bid amount, both
\* present, when the decision succeeded, and bid_rejected with both absent
\* otherwise, a technical-error decision included.  A request rejected as
\* malformed (status 400) appends nothing.
C18_OneEventPerEvaluation ==
    [][lastOp' = "api_evaluate"
       => /\ (response'.status = 400 => ledger' = ledger)
          /\ \A data \in WellFormedEvaluatePayloads, query_fault \in BOOLEAN :
                ApiEvaluate(data, query_fault, FALSE)
                => /\ Len(ledger') = Len(ledger) + 1
                   /\ \A k \in 1..Len(ledger) : ledger'[k] = ledger[k]
                   /\ LET e == ledger'[Len(ledger')]
                      IN  /\ e.auction_id = data.auction_id
                          /\ e.item_id = data.item_id
                          /\ IF response'.success
                             THEN /\ response'.status = 200
                                  /\ e.event_type = "bid_accepted"
                                  /\ e.user_id = response'.user_id
                                  /\ e.bid_amount = response'.bid_amount
                                  /\ e.user_id # None
                                  /\ e.bid_amount # None
                             ELSE /\ response'.status = 422
                                  /\ e.event_type = "bid_rejected"
                                  /\ e.user_id = None
                                  /\ e.bid_amount = None
                                  /\ (query_fault
                                        => e.decision_reason = "technical_error")]_vars

\* a technical-error decision stored as a rejected event after an accepted one
C18_Witness ==
    /\ lastOp = "api_evaluate"
    /\ response.status = 422
    /\ response.reason = "technical_error"
    /\ stored = "true"
    /\ Len(ledger) = 2
    /\ ledger[1].event_type = "bid_accepted"
    /\ ledger[2].event_type = "bid_rejected"
    /\ ledger[2].decision_reason = "technical_error"
    /\ ledger[2].user_id = None

\* C19: whenever the evaluate endpoint answers with a successful decision
\* (status 200, user id and bid amount) for an (auction id, item id), the
\* ledger holds a bid_accepted event of that pair (so that a later outcome
\* for the pair is not answered not-found), also when the write of the
\* decision met a persistence fault.
C19_AnsweredBidIsRecorded ==
    (/\ lastOp = "api_evaluate"
     /\ response.status = 200
     /\ response.success)
    => \E k \in 1..Len(ledger) :
          IsAcceptedFor(ledger[k], response.auction_id, response.item_id)

\* C20: for every successful decision on a proposal whose starting price is
\* at most its max price, the bid amount, after the rounding to 2 decimals,
\* is not below the starting price.
C20_BidNotBelowStart ==
    [][(/\ Evaluate
        /\ decision'.success
        /\ proposal.starting_price <= proposal.max_price)
       => decision'.bid_amount >= proposal.starting_price]_vars

\* Event e is an outcome of the pair.
IsOutcomeFor(e, auction_id, item_id) ==
    /\ e.event_type \in {"bid_won", "bid_lost"}
    /\ e.auction_id = auction_id
    /\ e.item_id = item_id

\* C21: outcome recording does not consume the accepted event.  Once an
\* outcome of an (auction id, item id) is in the ledger, a further outcome
\* notification of that pair (its commit going through) is accepted again
\* and appends one more bid_won / bid_lost event with the user id and bid
\* amount of the same accepted event, the ones every earlier outcome of the
\* pair carries; the accepted event stays in place.
C21_OutcomeDoesNotConsume ==
    [][lastOp' = "api_result"
       => \A data \in WellFormedResultPayloads :
             (/\ \E k \in 1..Len(ledger) :
                    IsOutcomeFor(ledger[k], data.auction_id, data.item_id)
              /\ ApiResult(data, "none"))
             => /\ response'.status = 200
                /\ Len(ledger') = Len(ledger) + 1
                /\ \A k \in 1..Len(ledger) : ledger'[k] = ledger[k]
                /\ LET e == ledger'[Len(ledger')]
                   IN  /\ IsOutcomeFor(e, data.auction_id, data.item_id)
                       /\ e.event_type = (IF data.won THEN "bid_won" ELSE "bid_lost")
                       /\ \E k \in 1..Len(ledger) :
                             /\ IsFirstAccepted(k, data.auction_id, data.item_id)
                             /\ e.user_id = ledger[k].user_id
                             /\ e.bid_amount = ledger[k].bid_amount
                       /\ \A k \in 1..Len(ledger) :
                             IsOutcomeFor(ledger[k], data.auction_id, data.item_id)
                             => /\ e.user_id = ledger[k].user_id
                                /\ e.bid_amount = ledger[k].bid_amount]_vars

\* one accepted event followed by a won and a lost outcome of its pair
C21_Witness ==
    /\ lastOp = "api_result"
    /\ response.status = 200
    /\ Len(ledger) = 3
    /\ ledger[1].event_type = "bid_accepted"
    /\ IsOutcomeFor(ledger[2], ledger[1].auction_id, ledger[1].item_id)
    /\ IsOutcomeFor(ledger[3], ledger[1].auction_id, ledger[1].item_id)
    /\ ledger[2].event_type # ledger[3].event_type
    /\ ledger[2].bid_amount = ledger[1].bid_amount
    /\ ledger[3].bid_amount = ledger[1].bid_amount
    /\ ledger[3].user_id = ledger[1].user_id

====
